---- MODULE Spec2Model ----
(***************************************************************************)
(* Model of the cleaning stage (scripts/etl_2_data_cleaning.py) and the    *)
(* transform stage (scripts/etl_3_data_transform.py) of the healthcare     *)
(* data-engineering pipeline.                                              *)
(*                                                                         *)
(* A DataFrame is a record [cols, rows]: cols is the set of column names,  *)
(* rows the sequence of rows in input order, each row a function from cols *)
(* to cells.  A cell is a record [t, n, s]: t = "na" is the missing marker *)
(* (NaN / pd.NA / NaT), t = "num" carries the number n, t = "str" carries  *)
(* the text s as a sequence of one-character strings, t = "date" carries a *)
(* parsed Timestamp as n = year*10000 + month*100 + day, t = "float" carries*)
(* a non-integral number as n = its value in tenths.                       *)
(***************************************************************************)
EXTENDS Integers, Sequences, FiniteSets, TLC

VARIABLES
    pc, entity, df, cleaned, recleaned,      \* one cleaner on one table
    job, raw_dir, clean_out, cleaning_log,   \* the main loop of the cleaning stage
    clean_dir, dim_idx, dims, processed, transform_log   \* the transform stage

cleaner_vars == <<pc, entity, df, cleaned, recleaned>>

loop_vars == <<job, raw_dir, clean_out, cleaning_log>>

transform_vars == <<clean_dir, dim_idx, dims, processed, transform_log>>

vars == <<cleaner_vars, loop_vars, transform_vars>>

-----------------------------------------------------------------------------
(* Cells *)

NA == [t |-> "na", n |-> 0, s |-> <<>>]

Num(x) == [t |-> "num", n |-> x, s |-> <<>>]

Str(q) == [t |-> "str", n |-> 0, s |-> q]

\* a float64 value that is not a whole number, kept to one decimal digit
Float(x10) == [t |-> "float", n |-> x10, s |-> <<>>]

\* the number of x10 tenths
Number(x10) == IF x10 % 10 = 0 THEN Num(x10 \div 10) ELSE Float(x10)

IsNumber(c) == c.t \in {"num", "float"}

\* a number in tenths
Tenths(c) == IF c.t = "float" THEN c.n ELSE c.n * 10

\* Python int(x / k): truncation toward zero
TruncDiv(x, k) == IF x >= 0 THEN x \div k ELSE 0 - ((0 - x) \div k)

Timestamp(y, m, d) == [t |-> "date", n |-> y * 10000 + m * 100 + d, s |-> <<>>]

isna(c) == c.t = "na"

NoDf == [cols |-> {}, rows |-> <<>>]

-----------------------------------------------------------------------------
(* Text: characters, str.strip, str.upper, str.title, digits *)

LowerChars == <<"a", "b", "c", "d", "e", "f", "g", "h", "i", "j", "k", "l", "m",
                "n", "o", "p", "q", "r", "s", "t", "u", "v", "w", "x", "y", "z">>

UpperChars == <<"A", "B", "C", "D", "E", "F", "G", "H", "I", "J", "K", "L", "M",
                "N", "O", "P", "Q", "R", "S", "T", "U", "V", "W", "X", "Y", "Z">>

DigitChars == <<"0", "1", "2", "3", "4", "5", "6", "7", "8", "9">>

Range(f) == {f[i] : i \in DOMAIN f}

IndexOf(ch, chars) == CHOOSE i \in DOMAIN chars : chars[i] = ch

IsLower(ch) == ch \in Range(LowerChars)

IsUpper(ch) == ch \in Range(UpperChars)

IsAlpha(ch) == IsLower(ch) \/ IsUpper(ch)

IsDigit(ch) == ch \in Range(DigitChars)

IsSpace(ch) == ch = " "

ToUpperChar(ch) == IF IsLower(ch) THEN UpperChars[IndexOf(ch, LowerChars)] ELSE ch

ToLowerChar(ch) == IF IsUpper(ch) THEN LowerChars[IndexOf(ch, UpperChars)] ELSE ch

RECURSIVE LStrip(_)
LStrip(q) == IF q # <<>> /\ IsSpace(Head(q)) THEN LStrip(Tail(q)) ELSE q

RECURSIVE RStrip(_)
RStrip(q) ==
    IF q # <<>> /\ IsSpace(q[Len(q)]) THEN RStrip(SubSeq(q, 1, Len(q) - 1)) ELSE q

StripText(q) == RStrip(LStrip(q))

UpperText(q) == [i \in DOMAIN q |-> ToUpperChar(q[i])]

\* Python str.title: a letter that follows a non-letter is upper-cased, a
\* letter that follows a letter is lower-cased.
TitleText(q) ==
    [i \in DOMAIN q |->
        IF i = 1 \/ ~IsAlpha(q[i - 1]) THEN ToUpperChar(q[i]) ELSE ToLowerChar(q[i])]

DigitVal(ch) == IndexOf(ch, DigitChars) - 1

RECURSIVE ParseDigits(_)
ParseDigits(q) ==
    IF q = <<>> THEN 0
    ELSE ParseDigits(SubSeq(q, 1, Len(q) - 1)) * 10 + DigitVal(q[Len(q)])

AllDigits(q) == q # <<>> /\ \A i \in DOMAIN q : IsDigit(q[i])

RECURSIVE FormatNat(_)
FormatNat(x) ==
    IF x < 10 THEN <<DigitChars[x + 1]>>
    ELSE Append(FormatNat(x \div 10), DigitChars[(x % 10) + 1])

FormatInt(x) == IF x < 0 THEN <<"-">> \o FormatNat(0 - x) ELSE FormatNat(x)

\* the text of a float of x10 tenths: "1.5", "-0.5"
FormatFloat(x10) ==
    LET a == IF x10 < 0 THEN 0 - x10 ELSE x10
    IN  (IF x10 < 0 THEN <<"-">> ELSE <<>>)
        \o FormatNat(a \div 10) \o <<".", DigitChars[(a % 10) + 1]>>

\* digits, a point, one digit (the integer part may be empty)
IsDecimal(q) ==
    /\ Len(q) >= 2
    /\ q[Len(q) - 1] = "."
    /\ IsDigit(q[Len(q)])
    /\ \A i \in 1..(Len(q) - 2) : IsDigit(q[i])

ParseDecimal(q) == ParseDigits(SubSeq(q, 1, Len(q) - 2)) * 10 + DigitVal(q[Len(q)])

-----------------------------------------------------------------------------
(* Column helpers: the pandas Series operations the cleaners use *)

\* pd.to_numeric(series, errors='coerce'), one cell
to_numeric(c) ==
    IF IsNumber(c) THEN c
    ELSE IF c.t = "str"
         THEN LET q == StripText(c.s)
                  neg == q # <<>> /\ Head(q) = "-"
                  body == IF neg THEN Tail(q) ELSE q
                  sign == IF neg THEN -1 ELSE 1
              IN  IF AllDigits(body) THEN Num(sign * ParseDigits(body))
                  ELSE IF IsDecimal(body) THEN Number(sign * ParseDecimal(body))
                  ELSE NA
         ELSE NA

fillna(c, v) == IF isna(c) THEN v ELSE c

clip_lower(c, lo) == IF IsNumber(c) /\ Tenths(c) < lo * 10 THEN Num(lo) ELSE c

clip_upper(c, hi) == IF IsNumber(c) /\ Tenths(c) > hi * 10 THEN Num(hi) ELSE c

\* series.astype(int), one cell: a float is truncated toward zero
astype_int(c) == IF c.t = "float" THEN Num(TruncDiv(c.n, 10)) ELSE c

\* series.round(), one cell: a half goes to the even neighbour
round_half_even(c) ==
    IF c.t # "float" THEN c
    ELSE LET lo == c.n \div 10
             r == c.n % 10
         IN  Num(IF r < 5 THEN lo
                 ELSE IF r > 5 THEN lo + 1
                 ELSE IF lo % 2 = 0 THEN lo ELSE lo + 1)

\* series.astype("string"), one cell
astype_string(c) ==
    IF c.t = "num" THEN Str(FormatInt(c.n))
    ELSE IF c.t = "float" THEN Str(FormatFloat(c.n))
    ELSE c

str_strip(c) == IF c.t = "str" THEN Str(StripText(c.s)) ELSE c

str_upper(c) == IF c.t = "str" THEN Str(UpperText(c.s)) ELSE c

str_title(c) == IF c.t = "str" THEN Str(TitleText(c.s)) ELSE c

\* df[c] = F(df[c]) guarded by "if c in df.columns"
MapCol(d, c, F(_)) ==
    IF c \in d.cols
    THEN [d EXCEPT !.rows = [i \in DOMAIN d.rows |-> [d.rows[i] EXCEPT ![c] = F(@)]]]
    ELSE d

NULL_TOKENS == { <<>>, <<" ">>, <<"N", "A">>, <<"N", "/", "A">>,
                 <<"N", "U", "L", "L">>, <<"n", "u", "l", "l">>,
                 <<"N", "o", "n", "e">>, <<"-">> }

replace_null_tokens(c) == IF c.t = "str" /\ c.s \in NULL_TOKENS THEN NA ELSE c

RECURSIVE standardize_missing(_, _)
standardize_missing(d, cs) ==
    IF cs = <<>> THEN d
    ELSE standardize_missing(MapCol(d, Head(cs), replace_null_tokens), Tail(cs))

trim_cell(c) == str_strip(astype_string(c))

RECURSIVE trim_columns(_, _)
trim_columns(d, cs) ==
    IF cs = <<>> THEN d
    ELSE trim_columns(MapCol(d, Head(cs), trim_cell), Tail(cs))

\* the rows of r at the indices in S, in order
RECURSIVE TakeRows(_, _, _)
TakeRows(r, S, i) ==
    IF i > Len(r) THEN <<>>
    ELSE IF i \in S THEN <<r[i]>> \o TakeRows(r, S, i + 1)
         ELSE TakeRows(r, S, i + 1)

\* the projection of a row on the columns of subset
RowKey(row, subset) == [c \in subset |-> row[c]]

\* drop_duplicates that compares whole rows whatever the subset
drop_duplicates_full_row(d, subset) ==
    LET first == {i \in DOMAIN d.rows :
                    \A j \in 1..(i - 1) : d.rows[j] # d.rows[i]}
    IN  [d EXCEPT !.rows = TakeRows(d.rows, first, 1)]

\* drop_duplicates with keep='last'
drop_duplicates_keep_last(d, subset) ==
    LET last == {i \in DOMAIN d.rows :
                    \A j \in (i + 1)..Len(d.rows) :
                        RowKey(d.rows[j], subset) # RowKey(d.rows[i], subset)}
    IN  [d EXCEPT !.rows = TakeRows(d.rows, last, 1)]

\* df.drop_duplicates(subset=subset): keep='first', missing values equal
drop_duplicates(d, subset) ==
    LET first == {i \in DOMAIN d.rows :
                    \A j \in 1..(i - 1) :
                        RowKey(d.rows[j], subset) # RowKey(d.rows[i], subset)}
    IN  [d EXCEPT !.rows = TakeRows(d.rows, first, 1)]

\* subset=[key] if key in df.columns else None (all columns)
dedupe(d, key) ==
    drop_duplicates(d, IF key \in d.cols THEN {key} ELSE d.cols)

\* clip_cell without the clip(lower=0)
clip_cell_unclipped(c) == fillna(to_numeric(c), Num(0))

clip_cell(c) == clip_lower(fillna(to_numeric(c), Num(0)), 0)

RECURSIVE clip_non_negative(_, _)
clip_non_negative(d, cs) ==
    IF cs = <<>> THEN d
    ELSE clip_non_negative(MapCol(d, Head(cs), clip_cell), Tail(cs))

\* pd.to_numeric(series, errors='coerce').astype("Int64"), one cell
to_int64(c) == to_numeric(c)

\* astype("Int64") raises TypeError (cannot safely cast non-equivalent
\* float64 to int64) when the coerced column holds a number that is not whole
int64_raises(d, c) ==
    IF c \in d.cols
    THEN \E i \in DOMAIN d.rows : to_numeric(d.rows[i][c]).t = "float"
    ELSE FALSE

-----------------------------------------------------------------------------
(* Dates: pd.to_datetime(errors='coerce') and the .dt accessors *)

IsLeap(y) == (y % 4 = 0 /\ y % 100 # 0) \/ y % 400 = 0

DaysInMonth(y, m) ==
    IF m = 2 THEN (IF IsLeap(y) THEN 29 ELSE 28)
    ELSE IF m \in {4, 6, 9, 11} THEN 30 ELSE 31

\* text of the shape YYYY-MM-DD
IsIsoShape(q) ==
    /\ Len(q) = 10
    /\ q[5] = "-" /\ q[8] = "-"
    /\ \A i \in {1, 2, 3, 4, 6, 7, 9, 10} : IsDigit(q[i])

parse_date(q) ==
    IF ~IsIsoShape(q) THEN NA
    ELSE LET y == ParseDigits(SubSeq(q, 1, 4))
             m == ParseDigits(SubSeq(q, 6, 7))
             d == ParseDigits(SubSeq(q, 9, 10))
         IN  IF m \in 1..12 /\ d \in 1..DaysInMonth(y, m) /\ y >= 1
             THEN Timestamp(y, m, d) ELSE NA

to_datetime(c) ==
    IF c.t = "date" THEN c
    ELSE IF c.t = "str" THEN parse_date(c.s)
    ELSE NA

dt_year(c) == Num(c.n \div 10000)

dt_month(c) == Num((c.n \div 100) % 100)

dt_day(c) == Num(c.n % 100)

dt_quarter(c) == Num((((c.n \div 100) % 100) - 1) \div 3 + 1)

MonthOffsets == <<0, 3, 2, 5, 0, 3, 5, 1, 4, 6, 2, 4>>

\* 0 = Sunday .. 6 = Saturday
DayOfWeek(y, m, d) ==
    LET yy == IF m < 3 THEN y - 1 ELSE y
    IN  (yy + yy \div 4 - yy \div 100 + yy \div 400 + MonthOffsets[m] + d) % 7

DayNames == << <<"S","u","n","d","a","y">>, <<"M","o","n","d","a","y">>,
               <<"T","u","e","s","d","a","y">>, <<"W","e","d","n","e","s","d","a","y">>,
               <<"T","h","u","r","s","d","a","y">>, <<"F","r","i","d","a","y">>,
               <<"S","a","t","u","r","d","a","y">> >>

dt_day_name(c) ==
    Str(DayNames[DayOfWeek(c.n \div 10000, (c.n \div 100) % 100, c.n % 100) + 1])

\* df.dropna(subset=[c])
dropna(d, c) ==
    [d EXCEPT !.rows = TakeRows(d.rows, {i \in DOMAIN d.rows : ~isna(d.rows[i][c])}, 1)]

\* df[c] = F(df["date"]) guarded by "if c in df.columns"
FromDate(d, c, F(_)) ==
    IF c \in d.cols
    THEN [d EXCEPT !.rows =
            [i \in DOMAIN d.rows |-> [d.rows[i] EXCEPT ![c] = F(d.rows[i]["date"])]]]
    ELSE d

-----------------------------------------------------------------------------
(* Text constants of the cleaners *)

Uninsured == Str(<<"U", "n", "i", "n", "s", "u", "r", "e", "d">>)

Male == Str(<<"M", "a", "l", "e">>)

Female == Str(<<"F", "e", "m", "a", "l", "e">>)

Unknown == Str(<<"U", "n", "k", "n", "o", "w", "n">>)

Active == Str(<<"A", "c", "t", "i", "v", "e">>)

OnLeave == Str(<<"O", "n", " ", "L", "e", "a", "v", "e">>)

RawatJalan == Str(<<"R", "a", "w", "a", "t", " ", "J", "a", "l", "a", "n">>)

RawatInap == Str(<<"R", "a", "w", "a", "t", " ", "I", "n", "a", "p">>)

IGD == Str(<<"I", "G", "D">>)

-----------------------------------------------------------------------------
(* Cleaning functions *)

\* the k-th smallest (1-based) of the numbers in the sequence v
Kth(v, k) ==
    CHOOSE x \in Range(v) :
        /\ Cardinality({i \in DOMAIN v : v[i] < x}) < k
        /\ Cardinality({i \in DOMAIN v : v[i] <= x}) >= k

\* Python int(x / 2): truncation toward zero
TruncHalf(x) == IF x >= 0 THEN x \div 2 ELSE 0 - ((0 - x) \div 2)

\* int(series.median()) over the non-missing values v, a non-empty sequence
\* of numbers in tenths
int_median(v) ==
    LET k == Len(v)
    IN  IF k % 2 = 1 THEN TruncDiv(Kth(v, (k + 1) \div 2), 10)
        ELSE TruncDiv(Kth(v, k \div 2) + Kth(v, k \div 2 + 1), 20)

\* the non-missing numbers of column c in tenths, in row order
RECURSIVE ValidNumbers(_, _)
ValidNumbers(r, c) ==
    IF r = <<>> THEN <<>>
    ELSE IF IsNumber(Head(r)[c]) THEN <<Tenths(Head(r)[c])>> \o ValidNumbers(Tail(r), c)
         ELSE ValidNumbers(Tail(r), c)

age_cell(c, med) == clip_upper(clip_lower(astype_int(fillna(c, Num(med))), 0), 120)

clean_age(d) ==
    IF "age" \in d.cols
    THEN LET d1 == MapCol(d, "age", to_numeric)
             v == ValidNumbers(d1.rows, "age")
             med == IF v # <<>> THEN int_median(v) ELSE 0
             Fill(c) == age_cell(c, med)
         IN  MapCol(d1, "age", Fill)
    ELSE d

gender_cell(c) ==
    LET g == str_title(c) IN IF g \in {Male, Female} THEN g ELSE Unknown

insurance_cell(c) == fillna(c, Uninsured)

clean_patients(d) ==
    LET d1 == standardize_missing(d, <<"patient_name", "insurance_type", "city", "gender">>)
        d2 == trim_columns(d1, <<"patient_name", "gender", "city", "insurance_type">>)
        d3 == MapCol(d2, "insurance_type", insurance_cell)
        d4 == clean_age(d3)
        d5 == MapCol(d4, "gender", gender_cell)
        d6 == MapCol(d5, "patient_id", to_int64)
    IN  dedupe(d6, "patient_id")

status_cell(c) == IF c \in {Active, OnLeave} THEN c ELSE Active

count_cell(c) == clip_lower(astype_int(fillna(to_numeric(c), Num(0))), 0)

clean_doctors(d) ==
    LET d1 == standardize_missing(d, <<"doctor_name", "department_name", "specialization", "status">>)
        d2 == trim_columns(d1, <<"doctor_name", "department_name", "specialization", "status">>)
        d3 == MapCol(d2, "status", status_cell)
        d4 == MapCol(d3, "years_experience", count_cell)
        d5 == MapCol(d4, "doctor_id", to_int64)
    IN  dedupe(d5, "doctor_id")

clean_departments(d) ==
    LET d1 == standardize_missing(d, <<"department_name", "head_doctor">>)
        d2 == trim_columns(d1, <<"department_name", "head_doctor">>)
        d3 == MapCol(d2, "department_id", to_int64)
        d4 == MapCol(d3, "floor_number", count_cell)
    IN  dedupe(d4, "department_id")

code_cell(c) == str_upper(str_strip(astype_string(c)))

clean_diagnoses(d) ==
    LET d1 == standardize_missing(d, <<"diagnosis_code", "diagnosis_name">>)
        d2 == MapCol(d1, "diagnosis_code", code_cell)
        d3 == MapCol(d2, "diagnosis_name", trim_cell)
        d4 == MapCol(d3, "diagnosis_id", to_int64)
    IN  dedupe(d4, "diagnosis_code")

\* F(df["date"]) written only where column c is missing
FillFromDate(d, c, F(_)) ==
    IF c \in d.cols
    THEN [d EXCEPT !.rows =
            [i \in DOMAIN d.rows |->
                [d.rows[i] EXCEPT ![c] = IF isna(@) THEN F(d.rows[i]["date"]) ELSE @]]]
    ELSE d

\* rebuild_dates that trusts the source value of a derived column
rebuild_dates_trusting(d) ==
    LET d1 == MapCol(d, "date", to_datetime)
        d2 == dropna(d1, "date")
        d3 == FillFromDate(d2, "year", dt_year)
        d4 == FillFromDate(d3, "month", dt_month)
        d5 == FillFromDate(d4, "day", dt_day)
        d6 == FillFromDate(d5, "quarter", dt_quarter)
    IN  FillFromDate(d6, "day_name", dt_day_name)

\* the "if 'date' in df.columns" block of clean_dates
rebuild_dates(d) ==
    LET d1 == MapCol(d, "date", to_datetime)
        d2 == dropna(d1, "date")
        d3 == FromDate(d2, "year", dt_year)
        d4 == FromDate(d3, "month", dt_month)
        d5 == FromDate(d4, "day", dt_day)
        d6 == FromDate(d5, "quarter", dt_quarter)
    IN  FromDate(d6, "day_name", dt_day_name)

clean_dates(d) ==
    LET d1 == standardize_missing(d, <<"year", "month", "day", "quarter", "day_name">>)
        d2 == IF "date" \in d1.cols THEN rebuild_dates(d1) ELSE d1
        d3 == MapCol(d2, "date_id", to_int64)
    IN  dedupe(d3, "date")

\* lines 248-253: the reconciliation of patient_payment, one row
reconcile_row(row) ==
    LET pp == row["patient_payment"]
        due == clip_lower(Number(Tenths(row["total_cost"])
                                 - Tenths(row["insurance_coverage"])), 0)
    IN  [row EXCEPT !["patient_payment"] = clip_lower(IF isna(pp) THEN due ELSE pp, 0)]

reconcile_payment(d) ==
    IF {"patient_payment", "total_cost", "insurance_coverage"} \subseteq d.cols
    THEN [d EXCEPT !.rows = [i \in DOMAIN d.rows |-> reconcile_row(d.rows[i])]]
    ELSE d

rating_cell(c) ==
    clip_upper(clip_lower(round_half_even(fillna(to_numeric(c), Num(3))), 1), 5)

visit_type_cell(c) == IF c \in {RawatJalan, RawatInap, IGD} THEN c ELSE RawatJalan

clean_visits(d) ==
    LET d1 == trim_columns(d, <<"department_name", "diagnosis_code", "visit_type">>)
        d2 == MapCol(d1, "visit_date", to_datetime)
        d3 == clip_non_negative(d2, <<"total_cost", "insurance_coverage",
                                      "patient_payment", "visit_duration_days">>)
        d4 == reconcile_payment(d3)
        d5 == MapCol(d4, "satisfaction_rating", rating_cell)
        d6 == MapCol(d5, "visit_type", visit_type_cell)
        d7 == MapCol(d6, "visit_id", to_int64)
    IN  dedupe(d7, "visit_id")

\* CLEANING_JOBS: the cleaning function of each entity
Clean(e, d) ==
    CASE e = "patients" -> clean_patients(d)
      [] e = "doctors" -> clean_doctors(d)
      [] e = "departments" -> clean_departments(d)
      [] e = "diagnoses" -> clean_diagnoses(d)
      [] e = "dates" -> clean_dates(d)
      [] e = "visits" -> clean_visits(d)

\* the id column each cleaner converts with astype("Int64")
IdOf == [patients |-> "patient_id", doctors |-> "doctor_id",
         departments |-> "department_id", diagnoses |-> "diagnosis_id",
         dates |-> "date_id", visits |-> "visit_id"]

\* the cleaner raises instead of returning a table; clean_dates converts
\* date_id after the rows of unparseable dates are gone
cleaner_raises(e, d) ==
    IF e = "dates"
    THEN LET d1 == standardize_missing(d, <<"year", "month", "day", "quarter", "day_name">>)
         IN  int64_raises(IF "date" \in d1.cols THEN rebuild_dates(d1) ELSE d1, "date_id")
    ELSE int64_raises(d, IdOf[e])

-----------------------------------------------------------------------------
(* Running a cleaner on a loaded table, and again on its own output *)

MaxVisitRows == 1

\* the tables over the rows R with at most k rows
Tables(cols, R, k) ==
    {[cols |-> cols, rows |-> r] : r \in UNION {[1..m -> R] : m \in 0..k}}

Junk == Str(<<"a", "b", "c">>)

MoneyCells == {NA, Junk, Num(-500), Num(30), Num(100)}

DurationCells == {NA, Junk, Num(-1), Num(2)}

VisitMoneyRows ==
    [visit_id : {Num(1)}, total_cost : MoneyCells, insurance_coverage : MoneyCells,
     patient_payment : MoneyCells, visit_duration_days : DurationCells]

\* visits without an insurance_coverage column: no reconciliation
VisitBareRows ==
    [visit_id : {Num(1), Num(2)}, total_cost : MoneyCells,
     patient_payment : MoneyCells]

VisitMoneyTables ==
    Tables({"visit_id", "total_cost", "insurance_coverage", "patient_payment",
            "visit_duration_days"}, VisitMoneyRows, MaxVisitRows)
    \cup Tables({"visit_id", "total_cost", "patient_payment"}, VisitBareRows, MaxVisitRows)

\* CLEANING_JOBS in dict order
CLEANING_JOBS == <<"patients", "doctors", "departments", "diagnoses", "dates", "visits">>

\* the dimension tables in the order transform_dimensions builds them
DIMS == <<"dim_patients", "dim_doctors", "dim_departments", "dim_diagnoses", "dim_dates">>

TransformIdle ==
    /\ clean_dir = [e \in Range(CLEANING_JOBS) |-> NoDf]
    /\ dim_idx = 0
    /\ dims = [x \in Range(DIMS) |-> NoDf]
    /\ processed = [x \in Range(DIMS) \cup {"fact_visits"} |-> NoDf]
    /\ transform_log = <<>>

LoopIdle ==
    /\ job = 0
    /\ raw_dir = [e \in Range(CLEANING_JOBS) |-> "absent"]
    /\ clean_out = [e \in Range(CLEANING_JOBS) |-> "none"]
    /\ cleaning_log = <<>>

InitLoaded(e, tables) ==
    /\ LoopIdle
    /\ TransformIdle
    /\ entity = e
    /\ df \in tables
    /\ pc = "loaded"
    /\ cleaned = NoDf
    /\ recleaned = NoDf

\* cleaned_df = func(df)
Run ==
    /\ pc = "loaded"
    /\ ~cleaner_raises(entity, df)
    /\ cleaned' = Clean(entity, df)
    /\ pc' = "cleaned"
    /\ UNCHANGED <<entity, df, recleaned, loop_vars, transform_vars>>

\* func(df) raises: no table is returned
RunRaises ==
    /\ pc = "loaded"
    /\ cleaner_raises(entity, df)
    /\ pc' = "raised"
    /\ UNCHANGED <<entity, df, cleaned, recleaned, loop_vars, transform_vars>>

\* the cleaner applied to its own output
Rerun ==
    /\ pc = "cleaned"
    /\ recleaned' = Clean(entity, cleaned)
    /\ pc' = "recleaned"
    /\ UNCHANGED <<entity, df, cleaned, loop_vars, transform_vars>>

Next == Run \/ Rerun

InitVisits == InitLoaded("visits", VisitMoneyTables)

SpecVisits == InitVisits /\ [][Next]_vars

-----------------------------------------------------------------------------
(* Properties of clean_visits *)

KeyOf == [patients |-> "patient_id", doctors |-> "doctor_id",
          departments |-> "department_id", diagnoses |-> "diagnosis_code",
          dates |-> "date_id", visits |-> "visit_id"]

\* the input rows that are the first of their cleaned id
FirstOf(idcol) ==
    {i \in DOMAIN df.rows :
        \A j \in 1..(i - 1) : to_int64(df.rows[j][idcol]) # to_int64(df.rows[i][idcol])}

\* the rows of the cleaned table that carry the cleaned id of input row i
OutRows(idcol, i) ==
    {o \in Range(cleaned.rows) : o[idcol] = to_int64(df.rows[i][idcol])}

Max0(x) == IF x > 0 THEN x ELSE 0

\* C1: after clean_visits on a table with patient_payment, total_cost and
\* insurance_coverage, every output row whose patient_payment was missing in
\* the input has patient_payment = max(total_cost - insurance_coverage, 0) of
\* the row's cleaned values.
C1_MissingPaymentReconciled ==
    (pc # "loaded" /\ {"patient_payment", "total_cost", "insurance_coverage"} \subseteq df.cols)
    => \A i \in FirstOf("visit_id") :
          isna(df.rows[i]["patient_payment"])
          => \A o \in OutRows("visit_id", i) :
                o["patient_payment"] =
                    Num(Max0(o["total_cost"].n - o["insurance_coverage"].n))

NonNegativeCols == {"total_cost", "insurance_coverage", "patient_payment",
                    "visit_duration_days"}

-----------------------------------------------------------------------------
(* The six cleaners on tables of a key column and one more column *)

MaxRows == 3

Entities == {"patients", "doctors", "departments", "diagnoses", "dates", "visits"}

\* the second column of the modelled tables of each entity
OtherOf == [patients |-> "patient_name", doctors |-> "department_name",
            departments |-> "department_name", diagnoses |-> "diagnosis_id",
            dates |-> "date", visits |-> "visit_type"]

IdCells == {Num(1), Str(<<"2">>), Junk}

NameCells == {Str(<<"A", "n", "n">>), Str(<<" ", "N", "A", " ">>), Str(<<"N", "A">>)}

CodeCells == {Str(<<"a", "0", "1">>), Str(<<" ", "A", "0", "1", " ">>), Str(<<" ", "N", "A", " ">>), NA}

DateCells == {Str(<<"2", "0", "2", "4", "-", "0", "1", "-", "0", "5">>), Str(<<"2", "0", "2", "4", "-", "0", "1", "-", "0", "6">>), Str(<<"2", "0", "2", "4", "-", "0", "2", "-", "3", "0">>), NA}

KeyCells(e) == IF e = "diagnoses" THEN CodeCells ELSE IdCells

OtherCells(e) ==
    CASE e = "diagnoses" -> {Num(1), Num(2)}
      [] e = "dates" -> DateCells
      [] e = "visits" -> {IGD, Str(<<" ", "N", "A", " ">>), Str(<<"N", "A">>)}
      [] OTHER -> NameCells

KeyTables(e) ==
    LET k == KeyOf[e]
        o == OtherOf[e]
    IN  Tables({k, o}, {(k :> a) @@ (o :> b) : a \in KeyCells(e), b \in OtherCells(e)},
               MaxRows)
        \cup Tables({k}, {(k :> a) : a \in KeyCells(e)}, MaxRows)
        \cup Tables({o}, {(o :> b) : b \in OtherCells(e)}, MaxRows)

InitKeys == \E e \in Entities : InitLoaded(e, KeyTables(e))

SpecKeys == InitKeys /\ [][Next]_vars

InitDiagnoses == InitLoaded("diagnoses", KeyTables("diagnoses"))

SpecDiagnoses == InitDiagnoses /\ [][Next]_vars

\* no two rows of the table share a value of column c (missing included)
UniqueIn(d, c) ==
    \A i, j \in DOMAIN d.rows : d.rows[i][c] = d.rows[j][c] => i = j

\* no two rows of the table share a non-missing value of column c
UniqueValuesIn(d, c) ==
    \A i, j \in DOMAIN d.rows :
        (d.rows[i][c] = d.rows[j][c] /\ ~isna(d.rows[i][c])) => i = j

DedupeKeyOf == [KeyOf EXCEPT !["dates"] = "date"]

C3_DedupeIdempotent ==
    pc = "recleaned" => Len(recleaned.rows) = Len(cleaned.rows)

\* the text columns a cleaner passes through standardize_missing and str.strip
NormalizedText ==
    [patients |-> {"patient_name", "insurance_type", "city", "gender"},
     doctors |-> {"doctor_name", "department_name", "specialization", "status"},
     departments |-> {"department_name", "head_doctor"},
     diagnoses |-> {"diagnosis_code", "diagnosis_name"},
     dates |-> {},
     visits |-> {}]

\* a text that is a null token: one of NULL_TOKENS, or only whitespace
IsNullToken(c) ==
    c.t = "str" /\ (c.s \in NULL_TOKENS \/ \A i \in DOMAIN c.s : IsSpace(c.s[i]))

\* C12: after a cleaner no value of a text column it normalizes is a
\* null-token string: a null token of the input, also one with whitespace
\* around it, has become missing or the column's default.
C12_NoNullTokenLeft ==
    pc # "loaded"
    => \A o \in Range(cleaned.rows) :
          \A c \in NormalizedText[entity] \cap cleaned.cols : ~IsNullToken(o[c])

-----------------------------------------------------------------------------
(* clean_dates on tables with a date column and derived columns *)

MaxDateRows == 2

Day1Text == Str(<<"2", "0", "2", "4", "-", "0", "1", "-", "0", "5">>)

NotADate == Str(<<"n", "o", "t", "-", "a", "-", "d", "a", "t", "e">>)

RawDates == {Str(<<"2", "0", "2", "4", "-", "0", "1", "-", "0", "5">>), Str(<<"2", "0", "2", "4", "-", "1", "2", "-", "3", "1">>), Str(<<"2", "0", "2", "4", "-", "0", "2", "-", "3", "0">>), Str(<<"n", "o", "t", "-", "a", "-", "d", "a", "t", "e">>), NA}

DateRows ==
    [date : RawDates, year : {Num(1999), Num(2024)}, month : {Num(13)},
     day : {Str(<<"N", "A">>)}, quarter : {Num(9), NA},
     day_name : {Str(<<"M", "o", "n", "d", "a", "y">>), Str(<<"F", "r", "i", "d", "a", "y">>)}]

DateShortRows == [date : RawDates, date_id : {Num(1), Junk}, year : {Num(1999), NA}]

DateTables ==
    Tables({"date", "year", "month", "day", "quarter", "day_name"}, DateRows, MaxDateRows)
    \cup Tables({"date", "date_id", "year"}, DateShortRows, MaxDateRows)

InitDates == InitLoaded("dates", DateTables)

SpecDates == InitDates /\ [][Next]_vars

\* the parsed dates of the input rows that parse
ParsedDates == {to_datetime(df.rows[i]["date"]) : i \in DOMAIN df.rows} \ {NA}

DaysBeforeMonth(y, m) ==
    LET F[k \in 0..12] == IF k = 0 THEN 0 ELSE F[k - 1] + DaysInMonth(y, k)
    IN  F[m - 1]

\* the proleptic Gregorian ordinal: 0001-01-01, a Monday, is day 1
Ordinal(y, m, d) ==
    365 * (y - 1) + (y - 1) \div 4 - (y - 1) \div 100 + (y - 1) \div 400
    + DaysBeforeMonth(y, m) + d

\* the derived columns of a cleaned row agree with its date
DerivedFromDate(o, cols) ==
    LET y == o["date"].n \div 10000
        m == (o["date"].n \div 100) % 100
        d == o["date"].n % 100
    IN  /\ "year" \in cols => o["year"] = Num(y)
        /\ "month" \in cols => o["month"] = Num(m)
        /\ "day" \in cols => o["day"] = Num(d)
        /\ "quarter" \in cols =>
              /\ o["quarter"].t = "num"
              /\ o["quarter"].n \in 1..4
              /\ m \in (3 * o["quarter"].n - 2)..(3 * o["quarter"].n)
        /\ "day_name" \in cols =>
              o["day_name"] = Str(DayNames[(Ordinal(y, m, d) % 7) + 1])

\* C4: clean_dates on a table with a date column drops exactly the rows whose
\* date is unparseable (a parseable row is dropped only as a later duplicate
\* of the same date), and in every surviving row year, month, day, quarter
\* and day_name are those of the parsed date, whatever the input held.
C4_DatesRebuilt ==
    (pc # "loaded" /\ "date" \in df.cols)
    => /\ \A o \in Range(cleaned.rows) : o["date"].t = "date"
       /\ {o["date"] : o \in Range(cleaned.rows)} = ParsedDates
       /\ Len(cleaned.rows) = Cardinality(ParsedDates)
       /\ \A o \in Range(cleaned.rows) : DerivedFromDate(o, cleaned.cols)

\* an unparseable row was dropped and the surviving row's wrong year, month,
\* quarter and day_name were rebuilt
C4_Witness ==
    /\ pc = "cleaned"
    /\ "day_name" \in df.cols
    /\ Len(df.rows) = 2
    /\ df.rows[1]["date"] = Str(<<"2", "0", "2", "4", "-", "0", "2", "-", "3", "0">>)
    /\ df.rows[2]["date"] = Str(<<"2", "0", "2", "4", "-", "0", "1", "-", "0", "5">>)
    /\ df.rows[2]["year"] = Num(1999)
    /\ df.rows[2]["day_name"] = Str(<<"M", "o", "n", "d", "a", "y">>)
    /\ Len(cleaned.rows) = 1
    /\ cleaned.rows[1]["year"] = Num(2024)
    /\ cleaned.rows[1]["quarter"] = Num(1)
    /\ cleaned.rows[1]["day_name"] = Str(<<"F", "r", "i", "d", "a", "y">>)

-----------------------------------------------------------------------------
(* clean_patients on tables of patient_id, age and gender *)

MaxPatientRows == 3

AgeCells == {NA, Junk, Num(30), Num(31), Num(130), Num(-5)}

GenderCells == {Str(<<"m", "a", "l", "e">>), Str(<<" ", "F", "E", "M", "A", "L", "E">>), Str(<<"N", "A">>)}

\* rows that vary the age, rows that vary the gender, and the second row of
\* the spec's scenario
PatientRows ==
    [patient_id : {Num(1), Num(2)}, age : AgeCells, gender : {Str(<<"m", "a", "l", "e">>)}]
    \cup [patient_id : {Num(1), Num(2)}, age : {Junk}, gender : GenderCells]
    \cup [patient_id : {Num(1), Num(2)}, age : {Num(30)}, gender : {Str(<<" ", "F", "E", "M", "A", "L", "E">>)}]

PatientTables == Tables({"patient_id", "age", "gender"}, PatientRows, MaxPatientRows)

InitPatients == InitLoaded("patients", PatientTables)

SpecPatients == InitPatients /\ [][Next]_vars

\* the valid ages of the input column, in row order
ValidAges ==
    LET F[k \in 0..Len(df.rows)] ==
            IF k = 0 THEN <<>>
            ELSE IF isna(to_numeric(df.rows[k]["age"])) THEN F[k - 1]
                 ELSE Append(F[k - 1], to_numeric(df.rows[k]["age"]).n)
    IN  F[Len(df.rows)]

\* twice the median of the valid ages (of which there is at least one)
TwiceMedian ==
    LET k == Len(ValidAges)
    IN  IF k % 2 = 1 THEN 2 * Kth(ValidAges, (k + 1) \div 2)
        ELSE Kth(ValidAges, k \div 2) + Kth(ValidAges, k \div 2 + 1)

Clip120(x) == IF x < 0 THEN 0 ELSE IF x > 120 THEN 120 ELSE x

ExpectedGender(c) ==
    IF c.t # "str" \/ c.s \in NULL_TOKENS THEN Unknown
    ELSE LET g == Str(TitleText(StripText(c.s)))
         IN  IF g \in {Male, Female} THEN g ELSE Unknown

\* what C6 says of every patient_id but the filled age: one output row per
\* patient_id, from the first input row of that id, ages in [0,120], a valid
\* age kept (clipped), gender title-cased or Unknown
FirstRowWins ==
    /\ Len(cleaned.rows) = Cardinality(FirstOf("patient_id"))
    /\ \A i \in FirstOf("patient_id") :
         /\ Cardinality({k \in DOMAIN cleaned.rows :
                cleaned.rows[k]["patient_id"] = to_int64(df.rows[i]["patient_id"])}) = 1
         /\ \A o \in OutRows("patient_id", i) :
              /\ o["gender"] = ExpectedGender(df.rows[i]["gender"])
              /\ o["age"].t = "num" /\ o["age"].n \in 0..120
              /\ ~isna(to_numeric(df.rows[i]["age"]))
                   => o["age"].n = Clip120(to_numeric(df.rows[i]["age"]).n)

\* C6 as stated: a missing or non-numeric age is replaced by the median of
\* the valid ages (checked where every valid age lies in [0,120]).
C6_MedianAge ==
    pc # "loaded"
    => /\ FirstRowWins
       /\ \A i \in FirstOf("patient_id") : \A o \in OutRows("patient_id", i) :
            (isna(to_numeric(df.rows[i]["age"])) /\ ValidAges # <<>>
                /\ \A k \in DOMAIN ValidAges : ValidAges[k] \in 0..120)
            => 2 * o["age"].n = TwiceMedian

\* C6 as amended: a missing or non-numeric age is replaced by the median of
\* the valid ages truncated to an integer (0 when no age is valid), clipped
\* to [0,120].
C6_TruncatedMedianAge ==
    pc # "loaded"
    => /\ FirstRowWins
       /\ \A i \in FirstOf("patient_id") : \A o \in OutRows("patient_id", i) :
            isna(to_numeric(df.rows[i]["age"]))
            => o["age"].n = IF ValidAges = <<>> THEN 0
                            ELSE Clip120(TruncHalf(TwiceMedian))

\* the scenario of the spec: {1, "abc", "male"} then {1, 30, "FEMALE"} leave
\* one row for patient 1 with age 30 and gender Male
C6_Witness ==
    /\ pc = "cleaned"
    /\ Len(df.rows) = 2
    /\ df.rows[1] = [patient_id |-> Num(1), age |-> Junk, gender |-> Str(<<"m", "a", "l", "e">>)]
    /\ df.rows[2] = [patient_id |-> Num(1), age |-> Num(30), gender |-> Str(<<" ", "F", "E", "M", "A", "L", "E">>)]
    /\ cleaned.rows = <<[patient_id |-> Num(1), age |-> Num(30), gender |-> Male]>>

-----------------------------------------------------------------------------
(* The six cleaners on tables of an id column and a typed column *)

MaxCoerceRows == 2

Decimal == Str(<<"1", ".", "5">>)

CoerceIdCells == {Num(1), Num(2), Junk, Decimal}

TypedCells == {Num(7), Num(-3), Junk, NA, Str(<<"2", ".", "5">>)}

\* the typed column next to the id in the modelled tables of each entity
TypedOf == [patients |-> "age", doctors |-> "years_experience",
            departments |-> "floor_number", diagnoses |-> "diagnosis_name",
            dates |-> "date", visits |-> "satisfaction_rating"]

TypedCellsOf(e) ==
    CASE e = "diagnoses" -> {Str(<<"A", "n", "n">>), NA}
      [] e = "dates" -> {Day1Text, NotADate}
      [] OTHER -> TypedCells

CoerceTables(e) ==
    Tables({IdOf[e], TypedOf[e]},
           {(IdOf[e] :> a) @@ (TypedOf[e] :> b) : a \in CoerceIdCells, b \in TypedCellsOf(e)},
           MaxCoerceRows)
    \cup (IF e = "visits"
          THEN Tables({"visit_id", "total_cost"},
                      [visit_id : CoerceIdCells, total_cost : TypedCells], MaxCoerceRows)
          ELSE {})

InitCoerce == \E e \in Entities : InitLoaded(e, CoerceTables(e))

NextCoerce == Run \/ RunRaises \/ Rerun

SpecCoerce == InitCoerce /\ [][NextCoerce]_vars

\* the id a row is to carry after cleaning: its whole number, else missing
CoercedId(c) == IF to_numeric(c).t = "num" THEN to_numeric(c) ELSE NA

ZeroDefaultCols == {"years_experience", "floor_number", "total_cost",
                    "insurance_coverage", "patient_payment"}

\* the row of input row i survives, up to the removal of duplicate ids
\* (of duplicate dates by clean_dates)
RowKept(i) ==
    \E o \in Range(cleaned.rows) :
        IF entity = "dates" THEN o["date"] = to_datetime(df.rows[i]["date"])
        ELSE o[IdOf[entity]] = CoercedId(df.rows[i][IdOf[entity]])

\* the input rows that are the first of their coerced id
FirstOfCoerced ==
    {i \in DOMAIN df.rows :
        \A j \in 1..(i - 1) :
            CoercedId(df.rows[j][IdOf[entity]]) # CoercedId(df.rows[i][IdOf[entity]])}

\* the typed value of input row i that fails coercion has its default in the
\* cleaned row of that id
DefaultFilled(i) ==
    \A o \in Range(cleaned.rows) :
        o[IdOf[entity]] = CoercedId(df.rows[i][IdOf[entity]])
        => /\ \A c \in ZeroDefaultCols \cap df.cols :
                isna(to_numeric(df.rows[i][c])) => o[c] = Num(0)
           /\ "satisfaction_rating" \in df.cols =>
                (isna(to_numeric(df.rows[i]["satisfaction_rating"]))
                    => o["satisfaction_rating"] = Num(3))
           /\ "age" \in df.cols => (o["age"].t = "num" /\ o["age"].n \in 0..120)

\* C11: no value of an id or typed column makes a cleaner fail: the cleaner
\* returns a table, every input row is kept (but a row of clean_dates whose
\* date does not parse), an id that is not a whole number has become missing
\* and a typed value that fails coercion has become its default.
C11_CoercionNeverFails ==
    pc # "loaded"
    => IF pc = "raised" THEN FALSE
       ELSE /\ \A i \in DOMAIN df.rows :
                 (entity = "dates" => ~isna(to_datetime(df.rows[i]["date"])))
                 => RowKept(i)
            /\ entity \in {"patients", "doctors", "departments", "visits"}
                 => \A i \in FirstOfCoerced : DefaultFilled(i)

-----------------------------------------------------------------------------
(* The main loop of the cleaning stage over the six raw files *)

\* a raw file is absent, cleans without error ("ok"), or makes read_csv
\* ("unreadable"), the cleaner ("dirty") or to_csv ("unwritable") raise
RawStates == {"absent", "ok", "unreadable", "dirty", "unwritable"}

LogLine(k, e) == [k |-> k, f |-> e]

CleanerIdle ==
    /\ pc = "main"
    /\ entity = "none"
    /\ df = NoDf
    /\ cleaned = NoDf
    /\ recleaned = NoDf

InitJobs ==
    /\ CleanerIdle
    /\ TransformIdle
    /\ job = 1
    /\ raw_dir \in [Range(CLEANING_JOBS) -> RawStates]
    /\ clean_out = [e \in Range(CLEANING_JOBS) |-> "none"]
    /\ cleaning_log = <<>>

InLoop == pc = "main" /\ job \in DOMAIN CLEANING_JOBS

\* lines 308-310: the raw file does not exist
JobNotFound ==
    /\ InLoop
    /\ raw_dir[CLEANING_JOBS[job]] = "absent"
    /\ cleaning_log' = Append(cleaning_log, LogLine("not_found", CLEANING_JOBS[job]))
    /\ job' = job + 1
    /\ UNCHANGED <<cleaner_vars, raw_dir, clean_out, transform_vars>>

\* lines 312-319: read, clean, write, log
JobCleaned ==
    /\ InLoop
    /\ raw_dir[CLEANING_JOBS[job]] = "ok"
    /\ clean_out' = [clean_out EXCEPT ![CLEANING_JOBS[job]] = "written"]
    /\ cleaning_log' = cleaning_log \o <<LogLine("loaded", CLEANING_JOBS[job]),
                                         LogLine("saved", CLEANING_JOBS[job])>>
    /\ job' = job + 1
    /\ UNCHANGED <<cleaner_vars, raw_dir, transform_vars>>

\* an exception that leaves the loop instead of being caught
JobFailedUncaught ==
    /\ InLoop
    /\ raw_dir[CLEANING_JOBS[job]] \in {"unreadable", "dirty", "unwritable"}
    /\ pc' = "aborted"
    /\ UNCHANGED <<entity, df, cleaned, recleaned, loop_vars, transform_vars>>

\* lines 321-323: an exception of read_csv, of the cleaner or of to_csv is
\* caught, logged, and the loop goes on
JobFailed ==
    /\ InLoop
    /\ raw_dir[CLEANING_JOBS[job]] \in {"unreadable", "dirty", "unwritable"}
    /\ clean_out' = IF raw_dir[CLEANING_JOBS[job]] = "unwritable"
                    THEN [clean_out EXCEPT ![CLEANING_JOBS[job]] = "partial"]
                    ELSE clean_out
    /\ cleaning_log' =
          cleaning_log
          \o (IF raw_dir[CLEANING_JOBS[job]] = "unreadable" THEN <<>>
              ELSE <<LogLine("loaded", CLEANING_JOBS[job])>>)
          \o <<LogLine("failed", CLEANING_JOBS[job])>>
    /\ job' = job + 1
    /\ UNCHANGED <<cleaner_vars, raw_dir, transform_vars>>

\* line 325: the completion line after the loop
LoopCompleted ==
    /\ pc = "main"
    /\ job = Len(CLEANING_JOBS) + 1
    /\ cleaning_log' = Append(cleaning_log, LogLine("completed", "all"))
    /\ pc' = "done"
    /\ UNCHANGED <<entity, df, cleaned, recleaned, job, raw_dir, clean_out, transform_vars>>

NextJobs == JobNotFound \/ JobCleaned \/ JobFailed \/ LoopCompleted

\* the script runs to its end: a single sequential process
SpecJobs == InitJobs /\ [][NextJobs]_vars /\ WF_vars(NextJobs)

Logged(k, e) == \E i \in DOMAIN cleaning_log : cleaning_log[i] = LogLine(k, e)

\* at the end every entity that is present and cleans without error has its
\* clean file written, every absence and every failure has its log line
ContainedAtEnd ==
    pc = "done"
    => /\ cleaning_log[Len(cleaning_log)] = LogLine("completed", "all")
       /\ \A e \in Range(CLEANING_JOBS) :
            /\ raw_dir[e] = "ok" => (clean_out[e] = "written" /\ Logged("saved", e))
            /\ raw_dir[e] = "absent" => Logged("not_found", e)
            /\ raw_dir[e] \in {"unreadable", "dirty", "unwritable"} => Logged("failed", e)

\* C9: whatever subset of the six entities is absent or fails, every other
\* entity has its clean file written, the absences and failures are logged,
\* and the loop reaches the completion log line.
C9_FailuresContained == [](ContainedAtEnd) /\ <>(pc = "done")

\* the first entity failed, the second was absent, and a later one was cleaned
C9_Witness ==
    /\ pc = "done"
    /\ raw_dir["patients"] = "dirty"
    /\ raw_dir["doctors"] = "absent"
    /\ raw_dir["departments"] = "unwritable"
    /\ raw_dir["visits"] = "ok"
    /\ clean_out["visits"] = "written"

-----------------------------------------------------------------------------
(* The transform stage: CSV reading, merges, dimension and fact tables *)

\* the texts pd.read_csv reads as missing
CSV_NA_VALUES == { <<>>,
                   <<"#", "N", "/", "A">>,
                   <<"#", "N", "/", "A", " ", "N", "/", "A">>,
                   <<"#", "N", "A">>,
                   <<"-", "1", ".", "#", "I", "N", "D">>,
                   <<"-", "1", ".", "#", "Q", "N", "A", "N">>,
                   <<"-", "N", "a", "N">>,
                   <<"-", "n", "a", "n">>,
                   <<"1", ".", "#", "I", "N", "D">>,
                   <<"1", ".", "#", "Q", "N", "A", "N">>,
                   <<"<", "N", "A", ">">>,
                   <<"N", "/", "A">>,
                   <<"N", "A">>,
                   <<"N", "U", "L", "L">>,
                   <<"N", "a", "N">>,
                   <<"N", "o", "n", "e">>,
                   <<"n", "/", "a">>,
                   <<"n", "a", "n">>,
                   <<"n", "u", "l", "l">> }

\* two digits, zero-padded
Pad2(x) == IF x < 10 THEN <<"0">> \o FormatNat(x) ELSE FormatNat(x)

Pad4(x) ==
    IF x < 10 THEN <<"0", "0", "0">> \o FormatNat(x)
    ELSE IF x < 100 THEN <<"0", "0">> \o FormatNat(x)
    ELSE IF x < 1000 THEN <<"0">> \o FormatNat(x)
    ELSE FormatNat(x)

\* the text to_csv writes for a Timestamp at midnight: YYYY-MM-DD
isoformat(c) ==
    Pad4(c.n \div 10000) \o <<"-">> \o Pad2((c.n \div 100) % 100) \o <<"-">> \o Pad2(c.n % 100)

\* one cell written by to_csv and read back by read_csv, before type inference
csv_cell(c) ==
    IF c.t = "date" THEN Str(isoformat(c))
    ELSE IF c.t = "str" /\ c.s \in CSV_NA_VALUES THEN NA
    ELSE c

\* read_csv infers a numeric column when every present cell is a number
csv_numeric_column(r, c) ==
    \A i \in DOMAIN r : isna(csv_cell(r[i][c])) \/ ~isna(to_numeric(csv_cell(r[i][c])))

\* pd.read_csv of the file that to_csv wrote for table d
read_csv(d) ==
    [d EXCEPT !.rows =
        [i \in DOMAIN d.rows |->
            [c \in d.cols |->
                IF csv_numeric_column(d.rows, c) THEN to_numeric(csv_cell(d.rows[i][c]))
                ELSE csv_cell(d.rows[i][c])]]]

\* df[[...]].copy()
Project(d, cs) ==
    [cols |-> cs, rows |-> [i \in DOMAIN d.rows |-> [c \in cs |-> d.rows[i][c]]]]

\* strftime("%Y%m%d")
strftime_Ymd(c) == Pad4(c.n \div 10000) \o Pad2((c.n \div 100) % 100) \o Pad2(c.n % 100)

make_date_id(c) ==
    LET d == to_datetime(c) IN IF isna(d) THEN NA ELSE to_int64(Str(strftime_Ymd(d)))

\* df[c] = F(df[src]): adds the column when it is absent
AssignCol(d, c, src, F(_)) ==
    [cols |-> d.cols \cup {c},
     rows |-> [i \in DOMAIN d.rows |->
                [x \in d.cols \cup {c} |->
                    IF x = c THEN F(d.rows[i][src]) ELSE d.rows[i][x]]]]

\* left.merge(right[[on, v]], on=on, how="inner", ...): unmatched rows dropped
merge_inner(left, right, on, v, lsuffix, rsuffix) ==
    LET clash == v \in left.cols
        lname == IF clash THEN v \o lsuffix ELSE v
        rname == IF clash THEN v \o rsuffix ELSE v
        newcols == (left.cols \ {v}) \cup (IF clash THEN {lname} ELSE {}) \cup {rname}
        Joined(l, x) ==
            [c \in newcols |->
                IF c = rname THEN x ELSE IF clash /\ c = lname THEN l[v] ELSE l[c]]
        Matches(l) == {j \in DOMAIN right.rows : right.rows[j][on] = l[on]}
        RowsFor(l) ==
            LET m == TakeRows(right.rows, Matches(l), 1)
            IN  [j \in DOMAIN m |-> Joined(l, m[j][v])]
        F[k \in 0..Len(left.rows)] ==
            IF k = 0 THEN <<>> ELSE F[k - 1] \o RowsFor(left.rows[k])
    IN  [cols |-> newcols, rows |-> F[Len(left.rows)]]

\* left.merge(right[[on, v]], on=on, how="left", suffixes=(lsuffix, rsuffix)):
\* one output row per matching right row, in left order; a left row without a
\* match is kept with v missing; missing keys match each other; when left
\* already has a column v the two columns take the suffixes
merge(left, right, on, v, lsuffix, rsuffix) ==
    LET clash == v \in left.cols
        lname == IF clash THEN v \o lsuffix ELSE v
        rname == IF clash THEN v \o rsuffix ELSE v
        newcols == (left.cols \ {v}) \cup (IF clash THEN {lname} ELSE {}) \cup {rname}
        Joined(l, x) ==
            [c \in newcols |->
                IF c = rname THEN x ELSE IF clash /\ c = lname THEN l[v] ELSE l[c]]
        Matches(l) == {j \in DOMAIN right.rows : right.rows[j][on] = l[on]}
        RowsFor(l) ==
            IF Matches(l) = {} THEN <<Joined(l, NA)>>
            ELSE LET m == TakeRows(right.rows, Matches(l), 1)
                 IN  [j \in DOMAIN m |-> Joined(l, m[j][v])]
        F[k \in 0..Len(left.rows)] ==
            IF k = 0 THEN <<>> ELSE F[k - 1] \o RowsFor(left.rows[k])
    IN  [cols |-> newcols, rows |-> F[Len(left.rows)]]

DimSource == [dim_patients |-> "patients", dim_doctors |-> "doctors",
              dim_departments |-> "departments", dim_diagnoses |-> "diagnoses",
              dim_dates |-> "dates"]

DimColumns ==
    [dim_patients |-> {"patient_id", "patient_name", "gender", "age", "city",
                       "insurance_type"},
     dim_doctors |-> {"doctor_id", "doctor_name", "department_name", "specialization",
                      "status", "years_experience"},
     dim_departments |-> {"department_id", "department_name", "head_doctor",
                          "floor_number"},
     dim_diagnoses |-> {"diagnosis_id", "diagnosis_name", "diagnosis_code"},
     dim_dates |-> {"date_id", "date", "year", "month", "day", "quarter", "day_name"}]

FactColumns == {"visit_id", "patient_id", "doctor_id", "department_id", "diagnosis_id",
                "date_id", "visit_type", "visit_duration_days", "total_cost",
                "insurance_coverage", "patient_payment", "satisfaction_rating"}

\* lines 116-142 of transform_fact: df_vis after the three merges
fact_frame(vis, dm) ==
    LET v1 == AssignCol(vis, "date_id", "visit_date", make_date_id)
        v2 == merge(v1, dm["dim_diagnoses"], "diagnosis_code", "diagnosis_id", "_x", "_y")
        v3 == merge(v2, dm["dim_doctors"], "doctor_id", "department_name", "", "_doc")
    IN  merge(v3, dm["dim_departments"], "department_name", "department_id", "_x", "_y")

\* transform_fact raises: visits_clean.csv is absent, a column it reads or
\* joins on is absent, or the final selection misses a column
fact_raises(file, dm) ==
    IF file = NoDf THEN TRUE
    ELSE IF ~({"visit_date", "diagnosis_code", "doctor_id"} \subseteq file.cols) THEN TRUE
    ELSE ~(FactColumns \subseteq fact_frame(read_csv(file), dm).cols)

\* lines 145-158: the fact table
fact_table(file, dm) == Project(fact_frame(read_csv(file), dm), FactColumns)

-----------------------------------------------------------------------------
(* The transform stage as a process: transform_dimensions, transform_fact *)

TLine(k, x) == [k |-> k, f |-> x]

\* pd.read_csv of a clean file and the column selection succeed
dim_readable(x) ==
    /\ clean_dir[DimSource[x]] # NoDf
    /\ DimColumns[x] \subseteq clean_dir[DimSource[x]].cols

\* lines 48-97, one dimension: read the clean file, select the columns
ReadDim ==
    /\ pc = "read"
    /\ dim_readable(DIMS[dim_idx])
    /\ dims' = [dims EXCEPT ![DIMS[dim_idx]] =
                    Project(read_csv(clean_dir[DimSource[DIMS[dim_idx]]]),
                            DimColumns[DIMS[dim_idx]])]
    /\ IF dim_idx < Len(DIMS)
       THEN dim_idx' = dim_idx + 1 /\ pc' = "read"
       ELSE dim_idx' = 1 /\ pc' = "save"
    /\ UNCHANGED <<entity, df, cleaned, recleaned, loop_vars, clean_dir, processed,
                   transform_log>>

\* FileNotFoundError or KeyError leaves transform_dimensions and the script
ReadDimRaises ==
    /\ pc = "read"
    /\ ~dim_readable(DIMS[dim_idx])
    /\ pc' = "crashed"
    /\ UNCHANGED <<entity, df, cleaned, recleaned, loop_vars, transform_vars>>

\* SaveDim that returns to the caller after the first dimension is written
SaveDimFirstOnly ==
    /\ pc = "save"
    /\ processed' = [processed EXCEPT ![DIMS[dim_idx]] = dims[DIMS[dim_idx]]]
    /\ transform_log' = Append(transform_log, TLine("saved", DIMS[dim_idx]))
    /\ dim_idx' = 0
    /\ pc' = "fact"
    /\ UNCHANGED <<entity, df, cleaned, recleaned, loop_vars, clean_dir, dims>>

\* lines 100-105, one dimension: write it and log
SaveDim ==
    /\ pc = "save"
    /\ processed' = [processed EXCEPT ![DIMS[dim_idx]] = dims[DIMS[dim_idx]]]
    /\ transform_log' = Append(transform_log, TLine("saved", DIMS[dim_idx]))
    /\ IF dim_idx < Len(DIMS)
       THEN dim_idx' = dim_idx + 1 /\ pc' = "save"
       ELSE dim_idx' = 0 /\ pc' = "fact"
    /\ UNCHANGED <<entity, df, cleaned, recleaned, loop_vars, clean_dir, dims>>

\* lines 110-163: transform_fact
TransformFact ==
    /\ pc = "fact"
    /\ ~fact_raises(clean_dir["visits"], dims)
    /\ processed' = [processed EXCEPT !["fact_visits"] = fact_table(clean_dir["visits"], dims)]
    /\ transform_log' = transform_log \o <<TLine("start", "fact"), TLine("saved", "fact_visits")>>
    /\ pc' = "finish"
    /\ UNCHANGED <<entity, df, cleaned, recleaned, loop_vars, clean_dir, dim_idx, dims>>

\* an exception leaves transform_fact and the script
TransformFactRaises ==
    /\ pc = "fact"
    /\ fact_raises(clean_dir["visits"], dims)
    /\ transform_log' = Append(transform_log, TLine("start", "fact"))
    /\ pc' = "crashed"
    /\ UNCHANGED <<entity, df, cleaned, recleaned, loop_vars, clean_dir, dim_idx, dims,
                   processed>>

\* line 177
TransformCompleted ==
    /\ pc = "finish"
    /\ transform_log' = Append(transform_log, TLine("completed", "all"))
    /\ pc' = "done"
    /\ UNCHANGED <<entity, df, cleaned, recleaned, loop_vars, clean_dir, dim_idx, dims,
                   processed>>

NextTransform ==
    \/ ReadDim \/ ReadDimRaises \/ SaveDim
    \/ TransformFact \/ TransformFactRaises \/ TransformCompleted

-----------------------------------------------------------------------------
(* The clean files the transform stage starts from *)

MaxDimRows == 2

MaxFactVisits == 2

ER == Str(<<"E", "R">>)

ICU == Str(<<"I", "C", "U">>)

A01 == Str(<<"A", "0", "1">>)

Z99 == Str(<<"Z", "9", "9">>)

Day1 == Str(<<"2", "0", "2", "4", "-", "0", "1", "-", "0", "5">>)

PatientRaw == [patient_id |-> Num(1), patient_name |-> Str(<<"A", "n", "n">>), gender |-> Male,
               age |-> Num(30), city |-> NA, insurance_type |-> NA]

DoctorRaw(id, dep) ==
    [doctor_id |-> id, doctor_name |-> Str(<<"A", "n", "n">>), department_name |-> dep,
     specialization |-> dep, status |-> Active, years_experience |-> Num(5)]

DepartmentRaw(id, name) ==
    [department_id |-> id, department_name |-> name, head_doctor |-> Str(<<"A", "n", "n">>),
     floor_number |-> Num(2)]

DiagnosisRaw(code, id) ==
    [diagnosis_code |-> code, diagnosis_name |-> Str(<<"A", "n", "n">>), diagnosis_id |-> id]

DateRaw == [date_id |-> Num(1), date |-> Day1, year |-> Num(2024), month |-> Num(1),
            day |-> Num(5), quarter |-> Num(1), day_name |-> Str(<<"F", "r", "i", "d", "a", "y">>)]

VisitRaw(id, doc, dep, code, cost) ==
    [visit_id |-> id, patient_id |-> Num(1), doctor_id |-> doc, department_name |-> dep,
     diagnosis_code |-> code, visit_date |-> Day1, visit_type |-> IGD,
     visit_duration_days |-> Num(2), total_cost |-> cost, insurance_coverage |-> Num(30),
     patient_payment |-> Num(70), satisfaction_rating |-> Num(4)]

Without(row, c) == [x \in (DOMAIN row) \ {c} |-> row[x]]

\* the table of the rows r, a sequence
TableOf(r) == [cols |-> IF r = <<>> THEN {} ELSE DOMAIN r[1], rows |-> r]

\* the file a cleaner writes for each raw table of at most k rows of R
FilesOf(e, cols, R, k) == {Clean(e, t) : t \in Tables(cols, R, k)}

\* complete clean files of one or two rows, as the cleaners leave them
PatientsFile ==
    TableOf(<<[PatientRaw EXCEPT !["insurance_type"] = Uninsured]>>)

DatesFile == TableOf(<<[DateRaw EXCEPT !["date"] = Timestamp(2024, 1, 5)]>>)

DoctorsFile == TableOf(<<DoctorRaw(Num(1), ICU)>>)

DepartmentsFile ==
    TableOf(<<DepartmentRaw(Num(10), ER), DepartmentRaw(Num(20), ICU)>>)

DiagnosesFile == TableOf(<<DiagnosisRaw(A01, Num(1))>>)

VisitsFile ==
    TableOf(<<[VisitRaw(Num(1), Num(1), ER, A01, Num(100))
                 EXCEPT !["visit_date"] = Timestamp(2024, 1, 5)]>>)

DoctorFiles ==
    FilesOf("doctors", DOMAIN DoctorRaw(NA, NA),
            {DoctorRaw(Num(1), ER), DoctorRaw(Num(1), ICU), DoctorRaw(Num(2), NA)},
            MaxDimRows)

DepartmentFiles ==
    FilesOf("departments", DOMAIN DepartmentRaw(NA, NA),
            {DepartmentRaw(Num(10), ER), DepartmentRaw(Num(20), ICU),
             DepartmentRaw(Num(30), ER), DepartmentRaw(Num(40), NA)},
            MaxDimRows)

DiagnosisFiles ==
    FilesOf("diagnoses", DOMAIN DiagnosisRaw(NA, NA),
            {DiagnosisRaw(Str(<<"a", "0", "1">>), Num(1)), DiagnosisRaw(NA, Num(2)),
             DiagnosisRaw(Str(<<" ", "N", "A", " ">>), Num(3))},
            MaxDimRows)

\* dates.csv rows whose date_id is a sequence number or the YYYYMMDD number
DateFiles ==
    FilesOf("dates", DOMAIN DateRaw,
            {[DateRaw EXCEPT !["date_id"] = id, !["date"] = d] :
                id \in {Num(1), Num(20240105), Num(20240106)},
                d \in {Day1, Str(<<"2", "0", "2", "4", "-", "0", "1", "-", "0", "6">>)}},
            MaxDimRows)

\* raw visits numbered 1, 2, ... by visit_id
NumberedVisits(R, k) ==
    {TableOf([i \in DOMAIN r |-> [r[i] EXCEPT !["visit_id"] = Num(i)]]) :
        r \in UNION {[1..m -> R] : m \in 1..k}}

\* visits that differ in doctor and department_name, with and without the
\* department_name column
VisitFilesByDoctor ==
    LET R == {VisitRaw(NA, doc, dep, A01, Num(100)) : doc \in {Num(1), Num(3)}, dep \in {ER, ICU}}
    IN  {Clean("visits", t) : t \in NumberedVisits(R, MaxFactVisits)}
        \cup {Clean("visits", t) :
                t \in NumberedVisits({Without(r, "department_name") : r \in R}, MaxFactVisits)}

\* visits that differ in diagnosis_code and total_cost
VisitFilesByDiagnosis ==
    LET R == {VisitRaw(NA, Num(1), ER, code, cost) :
                code \in {A01, Z99, NA}, cost \in {Num(100), Num(-500)}}
    IN  {Clean("visits", t) : t \in NumberedVisits(R, MaxFactVisits)}

FixedFile(e) ==
    CASE e = "patients" -> PatientsFile
      [] e = "doctors" -> DoctorsFile
      [] e = "departments" -> DepartmentsFile
      [] e = "diagnoses" -> DiagnosesFile
      [] e = "dates" -> DatesFile
      [] e = "visits" -> VisitsFile

DriftColumn == [patients |-> "city", doctors |-> "department_name",
                departments |-> "department_id", diagnoses |-> "diagnosis_code",
                dates |-> "quarter", visits |-> "visit_date"]

\* a clean file that lacks a required column (schema drift)
Drifted(e) ==
    LET f == FixedFile(e)
    IN  [cols |-> f.cols \ {DriftColumn[e]},
         rows |-> [i \in DOMAIN f.rows |-> Without(f.rows[i], DriftColumn[e])]]

TransformStart ==
    /\ LoopIdle
    /\ entity = "none"
    /\ df = NoDf
    /\ cleaned = NoDf
    /\ recleaned = NoDf
    /\ pc = "read"
    /\ dim_idx = 1
    /\ dims = [x \in Range(DIMS) |-> NoDf]
    /\ processed = [x \in Range(DIMS) \cup {"fact_visits"} |-> NoDf]
    /\ transform_log = <<>>

FileAs(e, kind) ==
    CASE kind = "absent" -> NoDf
      [] kind = "drifted" -> Drifted(e)
      [] kind = "complete" -> FixedFile(e)

\* every clean file is absent, drifted or complete
InitFiles ==
    \E kind \in [Range(CLEANING_JOBS) -> {"absent", "drifted", "complete"}] :
        clean_dir = [e \in Range(CLEANING_JOBS) |-> FileAs(e, kind[e])]

\* complete files; doctors, departments and the visits' doctor vary
InitByDoctor ==
    \E doc \in DoctorFiles, dep \in DepartmentFiles, vis \in VisitFilesByDoctor :
        clean_dir = [e \in Range(CLEANING_JOBS) |->
                        CASE e = "doctors" -> doc
                          [] e = "departments" -> dep
                          [] e = "visits" -> vis
                          [] OTHER -> FixedFile(e)]

\* complete files; diagnoses and the visits' diagnosis_code vary
InitByDiagnosis ==
    \E diag \in DiagnosisFiles, vis \in VisitFilesByDiagnosis :
        clean_dir = [e \in Range(CLEANING_JOBS) |->
                        CASE e = "diagnoses" -> diag
                          [] e = "visits" -> vis
                          [] OTHER -> FixedFile(e)]

\* complete files; the date table varies
InitByDate ==
    \E dat \in DateFiles :
        clean_dir = [e \in Range(CLEANING_JOBS) |->
                        IF e = "dates" THEN dat ELSE FixedFile(e)]

InitTransform ==
    TransformStart /\ (InitFiles \/ InitByDoctor \/ InitByDiagnosis \/ InitByDate)

SpecTransform == InitTransform /\ [][NextTransform]_vars

-----------------------------------------------------------------------------
(* Properties of the transform stage *)

\* the cleaned visits as transform_fact reads them
CleanVisits == read_csv(clean_dir["visits"])

FactWritten == pc \in {"finish", "done"}

FactRowsOf(v) ==
    {f \in Range(processed["fact_visits"].rows) : f["visit_id"] = v["visit_id"]}

CarriedColumns == {"visit_id", "patient_id", "doctor_id", "visit_type",
                   "visit_duration_days", "total_cost", "insurance_coverage",
                   "patient_payment", "satisfaction_rating"}

\* no row of the diagnosis dimension has the visit's diagnosis_code
\* (two missing codes are equal join keys)
Orphan(v) ==
    \A d \in Range(dims["dim_diagnoses"].rows) : d["diagnosis_code"] # v["diagnosis_code"]

TwoHopIds(v) ==
    {dep["department_id"] :
        dep \in {x \in Range(dims["dim_departments"].rows) :
                    \E doc \in Range(dims["dim_doctors"].rows) :
                        /\ doc["doctor_id"] = v["doctor_id"]
                        /\ x["department_name"] = doc["department_name"]}}

\* C10: the department_id of a fact row is the one two hops from the visit
\* through its doctor, missing when a hop has no match, also when the visits
\* carry a department_name of their own.
C10_DepartmentThroughDoctor ==
    FactWritten
    => \A v \in Range(CleanVisits.rows) :
          /\ FactRowsOf(v) # {}
          /\ \A f \in FactRowsOf(v) :
                IF TwoHopIds(v) = {} THEN isna(f["department_id"])
                ELSE f["department_id"] \in TwoHopIds(v)

\* C8: when the clean file of an entity is absent or lacks a required
\* column, only that entity's dimension is not produced: the failure is
\* logged, every dimension whose own source is complete is written, and the
\* run is not aborted.
C8_OtherDimensionsBuilt ==
    (pc \in {"done", "crashed"}
        /\ Cardinality({x \in Range(DIMS) : ~dim_readable(x)}) = 1)
    => \A x \in Range(DIMS) :
          IF dim_readable(x)
          THEN processed[x] = Project(read_csv(clean_dir[DimSource[x]]), DimColumns[x])
          ELSE \E i \in DOMAIN transform_log : transform_log[i] = TLine("failed", x)

\* every dimension has its "saved" line before position i of the log
DimsSavedBefore(i) ==
    \A x \in Range(DIMS) :
        \E j \in 1..(i - 1) : transform_log[j] = TLine("saved", x)

\* fact resolution has not begun before the five dimensions are written
FactAfterDimensions ==
    /\ \A i \in DOMAIN transform_log :
          transform_log[i].f \in {"fact", "fact_visits"} => DimsSavedBefore(i)
    /\ pc \in {"fact", "finish", "done"} => \A x \in Range(DIMS) : processed[x] # NoDf
    /\ processed["fact_visits"] # NoDf => \A x \in Range(DIMS) : processed[x] # NoDf
    /\ (pc = "crashed" /\ dim_idx # 0) =>
          /\ processed["fact_visits"] = NoDf
          /\ \A i \in DOMAIN transform_log : transform_log[i].f # "fact"

\* C13: in every run transform_fact (the read of visits_clean.csv, the write
\* of fact_visits.csv) comes after the five dimension tables are written, and
\* a run whose dimension building fails ends there, the fact table unwritten.
C13_DimensionsBeforeFact == [](FactAfterDimensions) /\ [][pc # "crashed"]_vars

\* a complete run: five dimensions saved, then the fact table, in this order
C13_Witness ==
    /\ pc = "done"
    /\ transform_log = <<TLine("saved", "dim_patients"), TLine("saved", "dim_doctors"),
                         TLine("saved", "dim_departments"), TLine("saved", "dim_diagnoses"),
                         TLine("saved", "dim_dates"), TLine("start", "fact"),
                         TLine("saved", "fact_visits"), TLine("completed", "all")>>
    /\ Len(processed["fact_visits"].rows) = 2
    /\ \A x \in Range(DIMS) : processed[x] = dims[x] /\ dims[x] # NoDf

\* C14: the fact table has exactly one row per cleaned visit and visit_id is
\* unique in it, whenever the diagnosis and doctor dimensions are unique in
\* their join keys, also when two rows of the department dimension share a
\* department_name.
C14_OneFactRowPerVisit ==
    (FactWritten /\ UniqueIn(CleanVisits, "visit_id")
        /\ UniqueIn(dims["dim_diagnoses"], "diagnosis_code")
        /\ UniqueIn(dims["dim_doctors"], "doctor_id"))
    => /\ Len(processed["fact_visits"].rows) = Len(CleanVisits.rows)
       /\ UniqueIn(processed["fact_visits"], "visit_id")

\* C15: in every row of the date dimension date_id is the YYYYMMDD number of
\* the row's date, so a fact row whose visit_date is a day of the date
\* dimension carries the date_id of that dimension row.
C15_DateKeyConsistent ==
    FactWritten
    => /\ \A d \in Range(dims["dim_dates"].rows) : d["date_id"] = make_date_id(d["date"])
       /\ \A v \in Range(CleanVisits.rows) : \A d \in Range(dims["dim_dates"].rows) :
             (~isna(to_datetime(v["visit_date"]))
                 /\ to_datetime(v["visit_date"]) = to_datetime(d["date"]))
             => \A f \in FactRowsOf(v) : f["date_id"] = d["date_id"]

====
